---- MODULE Spec2Model ----
(***************************************************************************)
(* Collabography editor: the layer resolver, the position interpolator,    *)
(* the keyframe editor (addPositionKeyframe) and the playback clock of     *)
(* EditorPage.                                                             *)
(*                                                                         *)
(* Numbers.  Times are integers in a model unit of 5 ms, so that the       *)
(* editor's tolerance of 0.01 s is 2 units and its transition duration of  *)
(* 0.5 s is 100 units.  Stage coordinates are integers in units of 0.05    *)
(* (0.2 = 4, 0.25 = 5, 0.5 = 10, 0.7 = 14).  An interpolated coordinate is *)
(* an exact fraction [n, d] in lowest terms; the fraction with d = 0 is    *)
(* the null result.  Floating-point rounding is not modelled.              *)
(*                                                                         *)
(* React.  A store update re-renders EditorPage synchronously and the      *)
(* playback effect's cleanup and re-run belong to the handler that caused  *)
(* them: every action below ends with Commit.                              *)
(***************************************************************************)
EXTENDS Integers, Sequences, FiniteSets, TLC

VARIABLES
  musicDurationSec,   \* project.music.durationSec
  layers,             \* slot -> track.layers
  positionKeyframes,  \* slot -> track.positionKeyframes
  currentTime,        \* store: currentTime
  isPlaying,          \* store: isPlaying
  currentTimeRef,     \* EditorPage: currentTimeRef.current
  rafPending,         \* a requestAnimationFrame callback of the playback effect is scheduled
  loopCount,          \* number of pending requestAnimationFrame callbacks of playback effects
  effectDuration,     \* timelineDuration captured by the running playback effect (0 when none runs)
  renderedDuration,   \* EditorPage: the useMemo value timelineDuration of the last render
  audioTime,          \* EditorPage: audioRef.current.currentTime (NoAudio while audioRef.current is null)
  topViewPosition,    \* slot -> interpolatePosition(track.positionKeyframes, currentTime) of the last render
  topViewMode,        \* EditorPage: topViewMode, 'play' or 'edit'
  nextId,             \* source of fresh ids (Date.now(), backend ids)
  uploads,            \* layer uploads started and not yet answered by the backend
  argLayers,          \* call frame of getActiveLayerAtTime: track.layers
  argKeyframes,       \* call frame of interpolatePosition: keyframes
  argTime,            \* call frame of either query: the time asked for
  retLayer,           \* value returned by getActiveLayerAtTime
  retPosition,        \* value returned by interpolatePosition
  lastOp,             \* history: the handler that ran last, with its input
  hasEnded,           \* history: playback has run into the end of the timeline
  editStartedAt       \* history: currentTime when the Top View entered edit mode (NotEditing in play mode)

vars == <<musicDurationSec, layers, positionKeyframes, currentTime, isPlaying,
          currentTimeRef, rafPending, loopCount, effectDuration, renderedDuration, audioTime,
          topViewPosition, topViewMode, nextId,
          uploads, argLayers, argKeyframes, argTime, retLayer, retPosition, lastOp,
          hasEnded, editStartedAt>>

storeVars == <<musicDurationSec, layers, positionKeyframes, currentTime, isPlaying,
               currentTimeRef, rafPending, loopCount, effectDuration, renderedDuration,
               audioTime, topViewPosition, topViewMode, nextId, uploads, editStartedAt>>

queryVars == <<argLayers, argKeyframes, argTime, retLayer, retPosition>>

\* what a handler of the editor leaves alone: the query frames and the end-of-timeline history
frameVars == <<queryVars, hasEnded>>

\* the mode of the Top View panel and its history
viewVars == <<topViewMode, editStartedAt>>

----------------------------------------------------------------------------
(* Program constants *)

Slots == {1, 2, 3}
EPSILON == 2
TRANSITION_DURATION == 100
Undefined == -1

\* audioRef.current = null: no audio element (yet)
NoAudio == -1

(* Bounds of the exploration *)

MaxLayersArg == 3
MaxKeyframesArg == 3
MaxSaves == 4
MaxUploads == 2

----------------------------------------------------------------------------
(* Arithmetic helpers *)

Abs(a) == IF a < 0 THEN -a ELSE a

Max2(a, b) == IF a >= b THEN a ELSE b

Min2(a, b) == IF a <= b THEN a ELSE b

MinOfSet(S) == CHOOSE m \in S : \A k \in S : m <= k

MaxOfSet(S) == CHOOSE m \in S : \A k \in S : m >= k

RECURSIVE Gcd(_, _)
Gcd(a, b) == IF b = 0 THEN a ELSE Gcd(b, a % b)

\* the number n/d (d > 0), in lowest terms
Frac(n, d) == LET g == Gcd(Abs(n), d) IN [n |-> n \div g, d |-> d \div g]

Whole(a) == [n |-> a, d |-> 1]

NullPosition == [x |-> [n |-> 0, d |-> 0], y |-> [n |-> 0, d |-> 0]]

NullLayer == [layerId |-> 0, startSec |-> 0, endSec |-> 0, priority |-> 0]

----------------------------------------------------------------------------
(* Layer Resolver: src/src/types/project.ts *)

RECURSIVE ReduceMaxPriority_lastWins(_, _, _)
ReduceMaxPriority_lastWins(s, i, max) ==
  IF i > Len(s) THEN max
  ELSE ReduceMaxPriority_lastWins(s, i + 1,
                                  IF s[i].priority >= max.priority THEN s[i] ELSE max)

\* activeLayers.reduce((max, layer) => layer.priority > max.priority ? layer : max)
RECURSIVE ReduceMaxPriority(_, _, _)
ReduceMaxPriority(s, i, max) ==
  IF i > Len(s) THEN max
  ELSE ReduceMaxPriority(s, i + 1, IF s[i].priority > max.priority THEN s[i] ELSE max)

getActiveLayerAtTime_inclusiveEnd(trackLayers, timeSec) ==
  LET activeLayers == SelectSeq(trackLayers,
                        LAMBDA layer : layer.startSec <= timeSec /\ timeSec <= layer.endSec)
  IN IF Len(activeLayers) = 0 THEN NullLayer
     ELSE ReduceMaxPriority(activeLayers, 2, activeLayers[1])

getActiveLayerAtTime(trackLayers, timeSec) ==
  LET activeLayers == SelectSeq(trackLayers,
                        LAMBDA layer : layer.startSec <= timeSec /\ timeSec < layer.endSec)
  IN IF Len(activeLayers) = 0 THEN NullLayer
     ELSE ReduceMaxPriority(activeLayers, 2, activeLayers[1])

----------------------------------------------------------------------------
(* Position Interpolator: TopView's interpolatePosition *)

\* Array.prototype.sort((a, b) => a.timeSec - b.timeSec): a stable sort by time
RECURSIVE InsertByTime(_, _)
InsertByTime(sorted, kf) ==
  IF Len(sorted) = 0 THEN <<kf>>
  ELSE IF sorted[Len(sorted)].timeSec <= kf.timeSec THEN Append(sorted, kf)
  ELSE Append(InsertByTime(SubSeq(sorted, 1, Len(sorted) - 1), kf), sorted[Len(sorted)])

RECURSIVE SortByTimeFrom(_, _, _)
SortByTimeFrom(s, i, acc) ==
  IF i > Len(s) THEN acc ELSE SortByTimeFrom(s, i + 1, InsertByTime(acc, s[i]))

SortByTime(s) == SortByTimeFrom(s, 1, <<>>)

\* kf.interp === 'STEP' && kf.x !== undefined && kf.y !== undefined
IsStepWithXY(kf) == kf.interp = "STEP" /\ kf.x # Undefined /\ kf.y # Undefined

\* Math.min(1, t) for a fraction t
MinOne(t) == IF t.n > t.d THEN Whole(1) ELSE t

\* a + (b - a) * t
lerp(a, b, t) == Frac(a * t.d + (b - a) * t.n, t.d)

PositionOf(kf) == [x |-> Whole(kf.x), y |-> Whole(kf.y)]

\* the body of the bracket loop for the pair (currStep, nextStep)
BracketPosition(sorted, currStep, nextStep, time) ==
  LET linearIdx == {j \in 1..Len(sorted) :
                      /\ sorted[j].interp = "LINEAR"
                      /\ sorted[j].timeSec > currStep.timeSec
                      /\ sorted[j].timeSec <= nextStep.timeSec}
  IN IF linearIdx # {} /\ time >= sorted[MinOfSet(linearIdx)].timeSec
     THEN LET linearInBetween == sorted[MinOfSet(linearIdx)]
              moveDuration == nextStep.timeSec - linearInBetween.timeSec
              moveElapsed == time - linearInBetween.timeSec
              t == IF moveDuration > 0 THEN Frac(moveElapsed, moveDuration) ELSE Whole(0)
          IN [x |-> lerp(currStep.x, nextStep.x, MinOne(t)),
              y |-> lerp(currStep.y, nextStep.y, MinOne(t))]
     ELSE PositionOf(currStep)

interpolatePosition_nullInBracket(keyframes, time) ==
  LET sorted == SortByTime(keyframes)
      stepKeyframes == SelectSeq(sorted, IsStepWithXY)
      n == Len(stepKeyframes)
  IN IF n = 0 THEN NullPosition
     ELSE IF time <= stepKeyframes[1].timeSec THEN PositionOf(stepKeyframes[1])
     ELSE IF time >= stepKeyframes[n].timeSec THEN PositionOf(stepKeyframes[n])
     ELSE NullPosition

interpolatePosition(keyframes, time) ==
  IF Len(keyframes) = 0 THEN NullPosition
  ELSE
  LET sorted == SortByTime(keyframes)
      stepKeyframes == SelectSeq(sorted, IsStepWithXY)
      n == Len(stepKeyframes)
  IN IF n = 0 THEN NullPosition
     ELSE IF time <= stepKeyframes[1].timeSec THEN PositionOf(stepKeyframes[1])
     ELSE IF time >= stepKeyframes[n].timeSec THEN PositionOf(stepKeyframes[n])
     ELSE LET brackets == {k \in 1..(n - 1) : time >= stepKeyframes[k].timeSec
                                              /\ time < stepKeyframes[k + 1].timeSec}
          IN IF brackets = {} THEN NullPosition
             ELSE BracketPosition(sorted, stepKeyframes[MinOfSet(brackets)],
                                  stepKeyframes[MinOfSet(brackets) + 1], time)

----------------------------------------------------------------------------
(* The project a fresh editor session holds: createNewProject and           *)
(* setCurrentProject in src/src/stores/projectStore.ts                      *)

Keyframe(id, timeSec, interp, x, y) ==
  [id |-> id, timeSec |-> timeSec, interp |-> interp, x |-> x, y |-> y]

\* MOCK_POSITION_KEYFRAMES: one STEP at 0 s per dancer, at x = 0.25, 0.5, 0.75 and y = 0.5
MOCK_POSITION_KEYFRAMES ==
  [s \in Slots |-> <<Keyframe(100 * s + 1, 0, "STEP", 5 * s, 10)>>]

\* track.layers.reduce((max, layer) => Math.max(max, layer.endSec), 0)
TrackEndTime(trackLayers) ==
  MaxOfSet({0} \cup {trackLayers[i].endSec : i \in 1..Len(trackLayers)})

\* useMemo timelineDuration of EditorPage: Math.max(project.music.durationSec, ...trackEndTimes)
TimelineDurationOf(music, ls) ==
  MaxOfSet({music} \cup {TrackEndTime(ls[s]) : s \in Slots})

timelineDuration == TimelineDurationOf(musicDurationSec, layers)

Op(name, arg) == [op |-> name, arg |-> arg]

\* frontViewDancers: topViewPosition of every track at the rendered time
Render(kfs, time) == [s \in Slots |-> interpolatePosition(kfs[s], time)]

NotEditing == -1

InitStore(music) ==
  /\ musicDurationSec = music
  /\ layers = [s \in Slots |-> <<>>]
  /\ positionKeyframes = MOCK_POSITION_KEYFRAMES
  /\ currentTime = 0
  /\ isPlaying = FALSE
  /\ currentTimeRef = 0
  /\ rafPending = FALSE
  /\ loopCount = 0
  /\ effectDuration = 0
  /\ renderedDuration = TimelineDurationOf(music, [s \in Slots |-> <<>>])
  /\ topViewPosition = Render(MOCK_POSITION_KEYFRAMES, 0)
  /\ topViewMode = "play"
  /\ editStartedAt = NotEditing
  /\ nextId = 1

----------------------------------------------------------------------------
(* SpecResolver: getActiveLayerAtTime applied to drawn layer lists *)

LayerArgTimes == {0, 3, 6, 10}
LayerArgPriorities == {1, 2}
LayerQueryTimes == {-1, 0, 2, 3, 5, 6, 8, 10, 11}

LayerChoices ==
  {c \in [startSec : LayerArgTimes, endSec : LayerArgTimes, priority : LayerArgPriorities] :
     c.startSec < c.endSec}

\* the i-th layer of a drawn track gets layerId i
LayerLists ==
  UNION {{[i \in 1..k |-> [layerId |-> i, startSec |-> f[i].startSec,
                           endSec |-> f[i].endSec, priority |-> f[i].priority]] :
            f \in [1..k -> LayerChoices]} : k \in 0..MaxLayersArg}

InitResolver ==
  /\ InitStore(0)
  /\ uploads = {}
  /\ audioTime = NoAudio
  /\ argLayers \in LayerLists
  /\ argKeyframes = <<>>
  /\ argTime = 0
  /\ retLayer = NullLayer
  /\ retPosition = NullPosition
  /\ lastOp = Op("init", 0)
  /\ hasEnded = FALSE

QueryActiveLayer(t) ==
  /\ argTime' = t
  /\ retLayer' = getActiveLayerAtTime(argLayers, t)
  /\ lastOp' = Op("getActiveLayerAtTime", t)
  /\ UNCHANGED <<storeVars, argLayers, argKeyframes, retPosition, hasEnded>>

NextResolver == \E t \in LayerQueryTimes : QueryActiveLayer(t)

SpecResolver == InitResolver /\ [][NextResolver]_vars

----------------------------------------------------------------------------
(* SpecInterp: interpolatePosition applied to drawn keyframe lists *)

KeyframeArgTimes == {0, 2, 4}
KeyframeQueryTimes == -1..5

\* a STEP with x,y, a STEP that lacks x,y, or a LINEAR marker
KeyframeChoices ==
  {[timeSec |-> t, interp |-> k[1], x |-> k[2], y |-> k[3]] :
     t \in KeyframeArgTimes,
     k \in {<<"STEP", 4, 14>>, <<"STEP", 10, 10>>,
            <<"STEP", Undefined, Undefined>>, <<"LINEAR", Undefined, Undefined>>}}

\* the i-th keyframe of a drawn list gets id i
KeyframeLists ==
  UNION {{[i \in 1..k |-> Keyframe(i, f[i].timeSec, f[i].interp, f[i].x, f[i].y)] :
            f \in [1..k -> KeyframeChoices]} : k \in 0..MaxKeyframesArg}

InitInterp ==
  /\ InitStore(0)
  /\ uploads = {}
  /\ audioTime = NoAudio
  /\ argLayers = <<>>
  /\ argKeyframes \in KeyframeLists
  /\ argTime = 0
  /\ retLayer = NullLayer
  /\ retPosition = NullPosition
  /\ lastOp = Op("init", 0)
  /\ hasEnded = FALSE

QueryPosition(t) ==
  /\ argTime' = t
  /\ retPosition' = interpolatePosition(argKeyframes, t)
  /\ lastOp' = Op("interpolatePosition", t)
  /\ UNCHANGED <<storeVars, argLayers, argKeyframes, retLayer, hasEnded>>

NextInterp == \E t \in KeyframeQueryTimes : QueryPosition(t)

SpecInterp == InitInterp /\ [][NextInterp]_vars

----------------------------------------------------------------------------
(* Keyframe Editor: addPositionKeyframe in src/src/stores/projectStore.ts   *)

\* findIndex: the first of the indices hits, 0 when there is none
FindIndex(hits) == IF hits = {} THEN 0 ELSE MinOfSet(hits)

\* the automatic LINEAR insertion that follows the push of a new STEP
AutoLinear_noExistingCheck(pushed, keyframe, linearId) ==
  LET sortedSteps == SortByTime(SelectSeq(pushed, LAMBDA k : k.interp = "STEP"))
      newStepIdx == FindIndex({i \in 1..Len(sortedSteps) : sortedSteps[i].id = keyframe.id})
  IN IF newStepIdx > 1
     THEN LET prevStep == sortedSteps[newStepIdx - 1]
              gap == keyframe.timeSec - prevStep.timeSec
              linearTime == keyframe.timeSec - TRANSITION_DURATION
          IN IF gap > TRANSITION_DURATION
             THEN SortByTime(Append(pushed,
                             Keyframe(linearId, linearTime, "LINEAR", Undefined, Undefined)))
             ELSE pushed
     ELSE pushed

AutoLinear_gapAtLeast(pushed, keyframe, linearId) ==
  LET sortedSteps == SortByTime(SelectSeq(pushed, LAMBDA k : k.interp = "STEP"))
      newStepIdx == FindIndex({i \in 1..Len(sortedSteps) : sortedSteps[i].id = keyframe.id})
  IN IF newStepIdx > 1
     THEN LET prevStep == sortedSteps[newStepIdx - 1]
              gap == keyframe.timeSec - prevStep.timeSec
              linearTime == keyframe.timeSec - TRANSITION_DURATION
              existingLinear == \E i \in 1..Len(pushed) :
                                   /\ pushed[i].interp = "LINEAR"
                                   /\ Abs(pushed[i].timeSec - linearTime) < EPSILON
          IN IF gap >= TRANSITION_DURATION /\ ~existingLinear
             THEN SortByTime(Append(pushed,
                             Keyframe(linearId, linearTime, "LINEAR", Undefined, Undefined)))
             ELSE pushed
     ELSE pushed

AutoLinear(pushed, keyframe, linearId) ==
  LET sortedSteps == SortByTime(SelectSeq(pushed, LAMBDA k : k.interp = "STEP"))
      newStepIdx == FindIndex({i \in 1..Len(sortedSteps) : sortedSteps[i].id = keyframe.id})
  IN IF newStepIdx > 1
     THEN LET prevStep == sortedSteps[newStepIdx - 1]
              gap == keyframe.timeSec - prevStep.timeSec
              linearTime == keyframe.timeSec - TRANSITION_DURATION
              existingLinear == \E i \in 1..Len(pushed) :
                                   /\ pushed[i].interp = "LINEAR"
                                   /\ Abs(pushed[i].timeSec - linearTime) < EPSILON
          IN IF gap > TRANSITION_DURATION /\ ~existingLinear
             THEN SortByTime(Append(pushed,
                             Keyframe(linearId, linearTime, "LINEAR", Undefined, Undefined)))
             ELSE pushed
     ELSE pushed

addPositionKeyframe_alwaysPush(kfs, keyframe, linearId) ==
  AutoLinear(SortByTime(Append(kfs, keyframe)), keyframe, linearId)

addPositionKeyframe(kfs, keyframe, linearId) ==
  LET existingIdx == FindIndex({i \in 1..Len(kfs) :
                                  Abs(kfs[i].timeSec - keyframe.timeSec) < EPSILON})
  IN IF existingIdx > 0
     THEN [kfs EXCEPT ![existingIdx] = keyframe]
     ELSE AutoLinear(SortByTime(Append(kfs, keyframe)), keyframe, linearId)

----------------------------------------------------------------------------
(* Playback clock of EditorPage and the store's playback controls *)

\* togglePlayback: isPlaying => !isPlaying
togglePlayback(playing) == ~playing

RulerTime_noUpperClamp(duration, x) == Max2(0, x)

\* TimelineRulerContent.handleMouseUp: Math.max(0, Math.min(duration, x / pixelsPerSecond))
RulerTime(duration, x) == Max2(0, Min2(duration, x))

animate_strictEnd(ref, delta, duration) ==
  LET newTime == ref + delta IN
  IF newTime > duration THEN [time |-> duration, ended |-> TRUE]
  ELSE [time |-> newTime, ended |-> FALSE]

\* one animation frame: the new time and whether the end was reached
animate(ref, delta, duration) ==
  LET newTime == ref + delta IN
  IF newTime >= duration THEN [time |-> duration, ended |-> TRUE]
  ELSE [time |-> newTime, ended |-> FALSE]

EffectSchedules_noCancel(depsChanged, playing, pending) ==
  IF depsChanged THEN playing \/ pending ELSE pending

EffectSchedules_noRestart(depsChanged, playing, pending) ==
  IF depsChanged THEN FALSE ELSE pending

\* the playback effect after a commit: its cleanup cancels the scheduled frame
\* when a dependency changed, and its body schedules one when isPlaying
EffectSchedules(depsChanged, playing, pending) ==
  IF depsChanged THEN playing ELSE pending

EffectLoops_noCancel(depsChanged, playing, callbacks) ==
  IF depsChanged THEN callbacks + (IF playing THEN 1 ELSE 0) ELSE callbacks

\* the callbacks after a commit: callbacks is their number when the handler
\* returns (a frame that fired and requested no other is gone); the cleanup
\* cancelAnimationFrame(animationId) removes the effect's pending one, the
\* body's requestAnimationFrame(animate) adds one
EffectLoops(depsChanged, playing, callbacks) ==
  IF depsChanged
  THEN (IF callbacks > 0 THEN callbacks - 1 ELSE 0) + (IF playing THEN 1 ELSE 0)
  ELSE callbacks

\* audioRef.current.currentTime = time, guarded by 'if (audioRef.current)';
\* the element keeps its position within its media, whose length is the
\* project's music.durationSec
SetAudioTime(audio, time, media) ==
  IF audio = NoAudio THEN NoAudio ELSE Max2(0, Min2(media, time))

\* the element playing for delta: it stops at the end of its media
AudioPlays(audio, delta, media) ==
  IF audio = NoAudio THEN NoAudio ELSE Min2(media, audio + delta)

\* the playback effect's audio part: when it (re)starts with isPlaying it
\* sets the element to currentTimeRef.current and plays; its cleanup pauses
EffectAudio(depsChanged, playing, audio, ref, media) ==
  IF depsChanged /\ playing THEN SetAudioTime(audio, ref, media) ELSE audio

useMemoDuration_neverRecomputed(projectChanged, memo, fresh) == memo

\* useMemo(() => ..., [project]): recomputed when the store handed out a new project
useMemoDuration(projectChanged, memo, fresh) == IF projectChanged THEN fresh ELSE memo

\* the render every store update causes, and the playback effect after it
Commit(depsChanged, pendingAfterHandler, audioAfterHandler) ==
  /\ currentTimeRef' = currentTime'
  /\ audioTime' = EffectAudio(depsChanged, isPlaying', audioAfterHandler,
                              currentTime', musicDurationSec')
  /\ renderedDuration' =
       useMemoDuration(<<musicDurationSec', layers', positionKeyframes'>>
                         # <<musicDurationSec, layers, positionKeyframes>>,
                       renderedDuration, TimelineDurationOf(musicDurationSec', layers'))
  /\ topViewPosition' = Render(positionKeyframes', currentTime')
  /\ rafPending' = EffectSchedules(depsChanged, isPlaying', pendingAfterHandler)
  /\ loopCount' = EffectLoops(depsChanged, isPlaying',
                              IF rafPending /\ ~pendingAfterHandler
                              THEN loopCount - 1 ELSE loopCount)
  /\ effectDuration' = IF ~isPlaying' THEN 0
                       ELSE IF depsChanged THEN TimelineDurationOf(musicDurationSec', layers')
                       ELSE effectDuration

\* play / pause button: onClick={togglePlayback}
TogglePlayback ==
  /\ isPlaying' = togglePlayback(isPlaying)
  /\ lastOp' = Op(IF isPlaying THEN "pause" ELSE "play", 0)
  /\ UNCHANGED <<musicDurationSec, layers, positionKeyframes, currentTime, nextId, uploads>>
  /\ UNCHANGED <<frameVars, viewVars>>
  /\ Commit(TRUE, rafPending, audioTime)

\* skip-to-start button: onClick={() => setCurrentTime(0)}
SkipToStart ==
  /\ currentTime' = 0
  /\ lastOp' = Op("skipToStart", 0)
  /\ UNCHANGED <<musicDurationSec, layers, positionKeyframes, isPlaying, nextId, uploads>>
  /\ UNCHANGED <<frameVars, viewVars>>
  /\ Commit(FALSE, rafPending, audioTime)

\* stop button: if (isPlaying) togglePlayback(); setCurrentTime(0)
Stop ==
  /\ isPlaying' = IF isPlaying THEN togglePlayback(isPlaying) ELSE isPlaying
  /\ currentTime' = 0
  /\ lastOp' = Op("stop", 0)
  /\ UNCHANGED <<musicDurationSec, layers, positionKeyframes, nextId, uploads>>
  /\ UNCHANGED <<frameVars, viewVars>>
  /\ Commit(isPlaying' # isPlaying, rafPending, audioTime)

\* click on the ruler at x (in time units): handleMouseUp, then handleSeek
RulerClick(x) ==
  /\ currentTime' = RulerTime(timelineDuration, x)
  /\ lastOp' = Op("seek", x)
  /\ UNCHANGED <<musicDurationSec, layers, positionKeyframes, isPlaying, nextId, uploads>>
  /\ UNCHANGED <<frameVars, viewVars>>
  /\ Commit(FALSE, rafPending, SetAudioTime(audioTime, currentTime', musicDurationSec))

\* the scheduled animation frame fires, delta after the previous one; the
\* audio element has been playing since the effect started
Tick(delta) ==
  /\ rafPending
  /\ LET frame == animate(currentTimeRef, delta, effectDuration) IN
     /\ currentTime' = frame.time
     /\ isPlaying' = IF frame.ended THEN togglePlayback(isPlaying) ELSE isPlaying
     /\ lastOp' = Op("tick", delta)
     /\ hasEnded' = (hasEnded \/ frame.ended)
     /\ UNCHANGED <<musicDurationSec, layers, positionKeyframes, nextId, uploads>>
     /\ UNCHANGED <<queryVars, viewVars>>
     /\ Commit(isPlaying' # isPlaying, ~frame.ended,
               AudioPlays(audioTime, delta, musicDurationSec))

----------------------------------------------------------------------------
(* Layer management of EditorPage *)

\* track.layers.reduce((max, layer) => Math.max(max, layer.priority), 0)
MaxPriority(trackLayers, floor) ==
  MaxOfSet({floor} \cup {trackLayers[i].priority : i \in 1..Len(trackLayers)})

\* handleUploadJson up to its first request: the new layer is computed from
\* the project of the render in which the upload was started
UploadJsonStart(slot, duration) ==
  /\ nextId <= MaxUploads
  /\ uploads' = uploads \cup
       {[layerId |-> nextId, slot |-> slot,
         startSec |-> TrackEndTime(layers[slot]),
         endSec |-> TrackEndTime(layers[slot]) + duration,
         priority |-> MaxPriority(layers[slot], 0) + 1]}
  /\ nextId' = nextId + 1
  /\ lastOp' = Op("uploadStart", 0)
  /\ UNCHANGED <<musicDurationSec, layers, positionKeyframes, currentTime, isPlaying>>
  /\ UNCHANGED <<frameVars, viewVars>>
  /\ Commit(FALSE, rafPending, audioTime)

\* addLayer: track.layers.push(layer)
addLayer(ls, slot, layer) == [ls EXCEPT ![slot] = Append(@, layer)]

\* handleUploadJson after the backend answered: addLayer
UploadJsonDone(u) ==
  /\ uploads' = uploads \ {u}
  /\ layers' = addLayer(layers, u.slot,
                 [layerId |-> u.layerId, startSec |-> u.startSec,
                  endSec |-> u.endSec, priority |-> u.priority])
  /\ lastOp' = Op("addLayer", 0)
  /\ UNCHANGED <<musicDurationSec, positionKeyframes, currentTime, isPlaying, nextId>>
  /\ UNCHANGED <<frameVars, viewVars>>
  /\ Commit(TRUE, rafPending, audioTime)

MoveLayer_startOnly(trackLayers, layerId, newStartSec) ==
  [i \in 1..Len(trackLayers) |->
     IF trackLayers[i].layerId = layerId
     THEN [trackLayers[i] EXCEPT !.startSec = newStartSec]
     ELSE trackLayers[i]]

\* updateLayer(layerId, {startSec, endSec}) on the first track holding layerId
MoveLayer(trackLayers, layerId, newStartSec) ==
  [i \in 1..Len(trackLayers) |->
     IF trackLayers[i].layerId = layerId
     THEN [trackLayers[i] EXCEPT !.startSec = newStartSec,
                                 !.endSec = newStartSec + (trackLayers[i].endSec
                                                           - trackLayers[i].startSec)]
     ELSE trackLayers[i]]

\* handleLayerDragMove(layerId, newStartSec), newStartSec >= 0 snapped by LayerBlock
LayerDragMove(slot, layerId, newStartSec) ==
  /\ \E i \in 1..Len(layers[slot]) : layers[slot][i].layerId = layerId
  /\ layers' = [layers EXCEPT ![slot] = MoveLayer(@, layerId, newStartSec)]
  /\ layers' # layers
  /\ lastOp' = Op("dragMove", 0)
  /\ UNCHANGED <<musicDurationSec, positionKeyframes, currentTime, isPlaying, nextId, uploads>>
  /\ UNCHANGED <<frameVars, viewVars>>
  /\ Commit(TRUE, rafPending, audioTime)

\* removeLayer: track.layers.splice(idx, 1)
removeLayer(trackLayers, layerId) ==
  SelectSeq(trackLayers, LAMBDA l : l.layerId # layerId)

\* handleDeleteLayer from the layer's context menu
DeleteLayer(slot, layerId) ==
  /\ \E i \in 1..Len(layers[slot]) : layers[slot][i].layerId = layerId
  /\ layers' = [layers EXCEPT ![slot] = removeLayer(@, layerId)]
  /\ lastOp' = Op("deleteLayer", 0)
  /\ UNCHANGED <<musicDurationSec, positionKeyframes, currentTime, isPlaying, nextId, uploads>>
  /\ UNCHANGED <<frameVars, viewVars>>
  /\ Commit(TRUE, rafPending, audioTime)

----------------------------------------------------------------------------
(* Spec: the clock and the layers of one editor session *)

\* The clock and the layer handlers only add and compare times, so under Spec
\* the unit of time is free: the drag target below is a frame boundary.
MusicDurations == {0, 3}
LayerDurations == {4}
TickDeltas == {1, 5}
RulerXs == {-1, 2, 11}
DragStarts == {1}

Init ==
  /\ \E music \in MusicDurations : InitStore(music)
  /\ uploads = {}
  /\ audioTime = NoAudio
  /\ argLayers = <<>>
  /\ argKeyframes = <<>>
  /\ argTime = 0
  /\ retLayer = NullLayer
  /\ retPosition = NullPosition
  /\ lastOp = Op("init", 0)
  /\ hasEnded = FALSE

Next ==
  \/ TogglePlayback
  \/ SkipToStart
  \/ Stop
  \/ \E x \in RulerXs : RulerClick(x)
  \/ \E delta \in TickDeltas : Tick(delta)
  \/ \E slot \in Slots, d \in LayerDurations : UploadJsonStart(slot, d)
  \/ \E u \in uploads : UploadJsonDone(u)
  \/ \E slot \in Slots, i \in 1..MaxUploads, t \in DragStarts : LayerDragMove(slot, i, t)
  \/ \E slot \in Slots, i \in 1..MaxUploads : DeleteLayer(slot, i)

Spec == Init /\ [][Next]_vars

----------------------------------------------------------------------------
(* SpecEditor: seeking and saving stage positions from the Top View editor *)

EditorMusicDuration == 300
EditorSeekTimes == {0, 1, 2, 101, 151, 202}

\* the positions the user leaves the three dancers at before pressing save
Formations ==
  {[s \in Slots |-> <<4 + 6 * (s - 1), 14>>],
   [s \in Slots |-> <<16 - 6 * (s - 1), 10>>]}

\* history record of a save: its time, its formation, and whether the handler
\* that ran before it was a save of the same formation at the same time
SaveOp(time, formation) ==
  [op |-> "savePositions", arg |-> time, formation |-> formation,
   repeat |-> (lastOp.op = "savePositions" /\ lastOp.arg = time
               /\ lastOp.formation = formation)]

\* handleSavePositions: one addPositionKeyframe per dancer at the current time
SavePositions(formation) ==
  /\ nextId <= MaxSaves
  /\ positionKeyframes' =
       [s \in Slots |->
          addPositionKeyframe(positionKeyframes[s],
            Keyframe(1000 * nextId + s, currentTime, "STEP", formation[s][1], formation[s][2]),
            1000 * nextId + 500 + s)]
  /\ nextId' = nextId + 1
  /\ lastOp' = SaveOp(currentTime, formation)
  /\ UNCHANGED <<musicDurationSec, layers, currentTime, isPlaying, uploads>>
  /\ UNCHANGED <<frameVars, viewVars>>
  /\ Commit(TRUE, rafPending, audioTime)

InitEditor ==
  /\ InitStore(EditorMusicDuration)
  /\ uploads = {}
  /\ audioTime = NoAudio
  /\ argLayers = <<>>
  /\ argKeyframes = <<>>
  /\ argTime = 0
  /\ retLayer = NullLayer
  /\ retPosition = NullPosition
  /\ lastOp = Op("init", 0)
  /\ hasEnded = FALSE

NextEditor ==
  \/ \E x \in EditorSeekTimes : RulerClick(x)
  \/ \E f \in Formations : SavePositions(f)

SpecEditor == InitEditor /\ [][NextEditor]_vars

----------------------------------------------------------------------------
(* SpecMarkers: the Top View editor saving at times around one transition   *)
(* duration after the default HOLD and within a few epsilon of each other.  *)

MarkerSeekTimes == {100, 150, 151, 152, 252}

NextMarkers ==
  \/ \E x \in MarkerSeekTimes : RulerClick(x)
  \/ \E f \in Formations : SavePositions(f)

SpecMarkers == InitEditor /\ [][NextMarkers]_vars

----------------------------------------------------------------------------
(* SpecJump: interpolatePosition applied to drawn keyframe lists in which a *)
(* marker can sit at the time of a HOLD and HOLDs can share a time (as the  *)
(* editor's lists can after saves within epsilon of each other).            *)

MaxJumpArg == 4
JumpArgTimes == {0, 2}
JumpQueryTimes == -1..3

JumpChoices ==
  {[timeSec |-> t, interp |-> k[1], x |-> k[2], y |-> k[3]] :
     t \in JumpArgTimes,
     k \in {<<"STEP", 4, 14>>, <<"STEP", 10, 10>>, <<"LINEAR", Undefined, Undefined>>}}

JumpLists ==
  UNION {{[i \in 1..k |-> Keyframe(i, f[i].timeSec, f[i].interp, f[i].x, f[i].y)] :
            f \in [1..k -> JumpChoices]} : k \in 0..MaxJumpArg}

InitJump ==
  /\ InitStore(0)
  /\ uploads = {}
  /\ audioTime = NoAudio
  /\ argLayers = <<>>
  /\ argKeyframes \in JumpLists
  /\ argTime = 0
  /\ retLayer = NullLayer
  /\ retPosition = NullPosition
  /\ lastOp = Op("init", 0)
  /\ hasEnded = FALSE

NextJump == \E t \in JumpQueryTimes : QueryPosition(t)

SpecJump == InitJump /\ [][NextJump]_vars

----------------------------------------------------------------------------
(* SpecPersist: the Top View editor with the save button of the project.    *)
(* The request body of keyframeApi.update is kept in the history record.    *)

\* handleSaveProject: track.positionKeyframes
\*   .filter(kf => kf.x !== undefined && kf.y !== undefined)
\*   .map(kf => ({time_sec: kf.timeSec, x: kf.x, y: kf.y, interp: kf.interp}))
serializeKeyframes(keyframes) ==
  LET kept == SelectSeq(keyframes, LAMBDA kf : kf.x # Undefined /\ kf.y # Undefined)
  IN [i \in 1..Len(kept) |->
        [time_sec |-> kept[i].timeSec, x |-> kept[i].x, y |-> kept[i].y,
         interp |-> kept[i].interp]]

\* loadProject: track.keyframes.map(kf => ({id: kf.id, timeSec: Number(kf.time_sec),
\*   x: Number(kf.x), y: Number(kf.y), interp: kf.interp})); the i-th row has id i
loadKeyframes(rows) ==
  [i \in 1..Len(rows) |->
     Keyframe(i, rows[i].time_sec, rows[i].interp, rows[i].x, rows[i].y)]

\* the save button: handleSaveProject sends every track's keyframes
SaveProject ==
  /\ lastOp' = [op |-> "saveProject", arg |-> 0,
                keyframes |-> [s \in Slots |-> serializeKeyframes(positionKeyframes[s])]]
  /\ UNCHANGED <<musicDurationSec, layers, positionKeyframes, currentTime, isPlaying,
                 nextId, uploads>>
  /\ UNCHANGED <<frameVars, viewVars>>
  /\ Commit(FALSE, rafPending, audioTime)

NextPersist ==
  \/ \E x \in EditorSeekTimes : RulerClick(x)
  \/ \E f \in Formations : SavePositions(f)
  \/ SaveProject

SpecPersist == InitEditor /\ [][NextPersist]_vars

----------------------------------------------------------------------------
(* SpecTransport: the transport buttons, the ruler and the animation frames *)
(* of a project whose audio element is loaded.                              *)

TransportMusicDuration == 6
TransportRulerXs == {2, 9}
TransportDeltas == {1, 2}

InitTransport ==
  /\ InitStore(TransportMusicDuration)
  /\ audioTime = 0
  /\ uploads = {}
  /\ argLayers = <<>>
  /\ argKeyframes = <<>>
  /\ argTime = 0
  /\ retLayer = NullLayer
  /\ retPosition = NullPosition
  /\ lastOp = Op("init", 0)
  /\ hasEnded = FALSE

NextTransport ==
  \/ TogglePlayback
  \/ SkipToStart
  \/ Stop
  \/ \E x \in TransportRulerXs : RulerClick(x)
  \/ \E delta \in TransportDeltas : Tick(delta)

SpecTransport == InitTransport /\ [][NextTransport]_vars

----------------------------------------------------------------------------
(* SpecLayers: skeleton and patch uploads into the tracks, several of them  *)
(* in flight.  Under SpecLayers the unit of time is half a frame (1/48 s).  *)

PATCH_PRIORITY_THRESHOLD == 100
FrameLength == 2
LayersMusicDuration == 4
LayerSlots == {1, 2}
PatchDurations == {2}
PatchSeekXs == {1, 3}
PatchDragStarts == {6}

\* snapToFrame: Math.round(timeSec * SNAP_FPS) / SNAP_FPS, for timeSec >= 0
snapToFrame(timeSec) == ((2 * timeSec + FrameLength) \div (2 * FrameLength)) * FrameLength

IsPatchUpload(u) == "phase" \in DOMAIN u

\* track.layers.reduce((max, layer) => Math.max(max, layer.priority),
\*                     PATCH_PRIORITY_THRESHOLD) + 1
PatchPriority(trackLayers) == MaxPriority(trackLayers, PATCH_PRIORITY_THRESHOLD) + 1

\* handleUploadPatch up to 'await file.text()': the start is the snapped
\* currentTime of the render in which the upload was started
UploadPatchStart(slot, duration) ==
  /\ nextId <= MaxUploads
  /\ uploads' = uploads \cup
       {[layerId |-> nextId, slot |-> slot,
         startSec |-> snapToFrame(currentTime),
         endSec |-> snapToFrame(currentTime) + duration,
         priority |-> 0, phase |-> "reading"]}
  /\ nextId' = nextId + 1
  /\ lastOp' = Op("patchStart", 0)
  /\ UNCHANGED <<musicDurationSec, layers, positionKeyframes, currentTime, isPlaying>>
  /\ UNCHANGED <<frameVars, viewVars>>
  /\ Commit(FALSE, rafPending, audioTime)

\* handleUploadPatch from the file's text to 'await layerApi.upload(...)': the
\* priority is computed from useProjectStore.getState() and sent to the backend
UploadPatchRead(u) ==
  /\ IsPatchUpload(u)
  /\ u.phase = "reading"
  /\ uploads' = (uploads \ {u}) \cup
       {[u EXCEPT !.priority = PatchPriority(layers[u.slot]), !.phase = "uploading"]}
  /\ lastOp' = Op("patchRead", 0)
  /\ UNCHANGED <<musicDurationSec, layers, positionKeyframes, currentTime, isPlaying, nextId>>
  /\ UNCHANGED <<frameVars, viewVars>>
  /\ Commit(FALSE, rafPending, audioTime)

\* handleUploadPatch after the backend answered: addLayer with the computed
\* times and the priority of the answer (the priority that was sent)
UploadPatchDone(u) ==
  /\ IsPatchUpload(u)
  /\ u.phase = "uploading"
  /\ uploads' = uploads \ {u}
  /\ layers' = addLayer(layers, u.slot,
                 [layerId |-> u.layerId, startSec |-> u.startSec,
                  endSec |-> u.endSec, priority |-> u.priority])
  /\ lastOp' = Op("addPatch", u.slot)
  /\ UNCHANGED <<musicDurationSec, positionKeyframes, currentTime, isPlaying, nextId>>
  /\ UNCHANGED <<frameVars, viewVars>>
  /\ Commit(TRUE, rafPending, audioTime)

InitLayers ==
  /\ InitStore(LayersMusicDuration)
  /\ uploads = {}
  /\ audioTime = NoAudio
  /\ argLayers = <<>>
  /\ argKeyframes = <<>>
  /\ argTime = 0
  /\ retLayer = NullLayer
  /\ retPosition = NullPosition
  /\ lastOp = Op("init", 0)
  /\ hasEnded = FALSE

NextLayers ==
  \/ \E x \in PatchSeekXs : RulerClick(x)
  \/ \E slot \in LayerSlots, d \in LayerDurations : UploadJsonStart(slot, d)
  \/ \E u \in {v \in uploads : ~IsPatchUpload(v)} : UploadJsonDone(u)
  \/ \E slot \in LayerSlots, d \in PatchDurations : UploadPatchStart(slot, d)
  \/ \E u \in uploads : UploadPatchRead(u)
  \/ \E u \in uploads : UploadPatchDone(u)
  \/ \E slot \in LayerSlots, i \in 1..MaxUploads, t \in PatchDragStarts :
       LayerDragMove(slot, i, t)

SpecLayers == InitLayers /\ [][NextLayers]_vars

----------------------------------------------------------------------------
(* SpecFrontView: the layer frontViewDancers selects for a track, next to   *)
(* getActiveLayerAtTime on the same track and time.  A drawn layer carries  *)
(* 'ready': its skeleton.status is 'READY' and skeletonCache has its        *)
(* layerId (a layer added by handleUploadVideo is 'PROCESSING' and has no   *)
(* cache entry; a loaded project's layers are ready only when cached).      *)

MaxFrontLayers == 2
FrontLayerTimes == {0, 3, 6}
FrontLayerPriorities == {1, 2}
FrontQueryTimes == {-1, 0, 2, 3, 5, 6}

FrontLayerChoices ==
  {c \in [startSec : FrontLayerTimes, endSec : FrontLayerTimes,
          priority : FrontLayerPriorities, ready : BOOLEAN] :
     c.startSec < c.endSec}

FrontLayerLists ==
  UNION {{[i \in 1..k |-> [layerId |-> i, startSec |-> f[i].startSec,
                           endSec |-> f[i].endSec, priority |-> f[i].priority,
                           ready |-> f[i].ready]] :
            f \in [1..k -> FrontLayerChoices]} : k \in 0..MaxFrontLayers}

frontViewLayer_noReadyFilter(trackLayers, time) ==
  LET activeLayers == SelectSeq(trackLayers,
                        LAMBDA layer : layer.startSec <= time /\ time < layer.endSec)
  IN IF Len(activeLayers) > 0
     THEN ReduceMaxPriority(activeLayers, 2, activeLayers[1])
     ELSE NullLayer

\* frontViewDancers, per track: activeLayer (NullLayer for null); skeletonData
\* is that layer's cache entry, so a skeleton is rendered exactly when
\* activeLayer is not null
frontViewLayer(trackLayers, time) ==
  LET activeLayers == SelectSeq(trackLayers,
                        LAMBDA layer : layer.startSec <= time /\ time < layer.endSec)
      readyLayers == SelectSeq(activeLayers, LAMBDA layer : layer.ready)
  IN IF Len(readyLayers) > 0
     THEN ReduceMaxPriority(readyLayers, 2, readyLayers[1])
     ELSE NullLayer

\* the track's layers that can be drawn
ReadyLayersOf(trackLayers) == SelectSeq(trackLayers, LAMBDA layer : layer.ready)

\* one render of the Front View at clock time t, and the resolver asked for
\* the same track at the same time
RenderFrontView(t) ==
  /\ argTime' = t
  /\ retLayer' = getActiveLayerAtTime(argLayers, t)
  /\ lastOp' = [op |-> "frontViewDancers", arg |-> t,
                activeLayer |-> frontViewLayer(argLayers, t),
                amongReady |-> getActiveLayerAtTime(ReadyLayersOf(argLayers), t)]
  /\ UNCHANGED <<storeVars, argLayers, argKeyframes, retPosition, hasEnded>>

InitFrontView ==
  /\ InitStore(0)
  /\ uploads = {}
  /\ audioTime = NoAudio
  /\ argLayers \in FrontLayerLists
  /\ argKeyframes = <<>>
  /\ argTime = 0
  /\ retLayer = NullLayer
  /\ retPosition = NullPosition
  /\ lastOp = Op("init", 0)
  /\ hasEnded = FALSE

NextFrontView == \E t \in FrontQueryTimes : RenderFrontView(t)

SpecFrontView == InitFrontView /\ [][NextFrontView]_vars

----------------------------------------------------------------------------
(* SpecStore: the store's addPositionKeyframe called directly with STEP     *)
(* keyframes, with or without x,y (PositionKeyframe declares both optional) *)

MaxStoreCalls == 3
StoreKeyframeTimes == {0, 1, 151}

StoreKeyframes ==
  {[timeSec |-> t, interp |-> "STEP", x |-> p[1], y |-> p[2]] :
     t \in StoreKeyframeTimes, p \in {<<4, 14>>, <<Undefined, Undefined>>}}

\* useProjectStore.addPositionKeyframe(trackId, keyframe)
StoreAddPositionKeyframe(slot, kf) ==
  /\ nextId <= MaxStoreCalls
  /\ positionKeyframes' =
       [positionKeyframes EXCEPT ![slot] =
          addPositionKeyframe(@, Keyframe(1000 * nextId + slot, kf.timeSec, kf.interp, kf.x, kf.y),
                              1000 * nextId + 500 + slot)]
  /\ nextId' = nextId + 1
  /\ lastOp' = [op |-> "addPositionKeyframe", arg |-> kf.timeSec, keyframe |-> kf, slot |-> slot]
  /\ UNCHANGED <<musicDurationSec, layers, currentTime, isPlaying, uploads>>
  /\ UNCHANGED <<frameVars, viewVars>>
  /\ Commit(TRUE, rafPending, audioTime)

InitStoreCalls ==
  /\ InitStore(EditorMusicDuration)
  /\ uploads = {}
  /\ audioTime = NoAudio
  /\ argLayers = <<>>
  /\ argKeyframes = <<>>
  /\ argTime = 0
  /\ retLayer = NullLayer
  /\ retPosition = NullPosition
  /\ lastOp = Op("init", 0)
  /\ hasEnded = FALSE

NextStore == \E slot \in Slots, kf \in StoreKeyframes : StoreAddPositionKeyframe(slot, kf)

SpecStore == InitStoreCalls /\ [][NextStore]_vars

----------------------------------------------------------------------------
(* SpecPure: getActiveLayerAtTime and interpolatePosition called in any     *)
(* order on one drawn layer list or keyframe list, each call leaving its    *)
(* argument as the code leaves it                                           *)

MaxPureArg == 2
PureLayerTimes == {0, 3, 6}
PureKeyframeTimes == {0, 2, 3}

PureLayerLists == {ls \in LayerLists : Len(ls) <= MaxPureArg}
PureKeyframeLists == {kfs \in KeyframeLists : Len(kfs) <= MaxPureArg}

\* track.layers after track.layers.filter(...) and activeLayers.reduce(...):
\* both build new values and leave track.layers alone
layersAfterFilter(trackLayers) == trackLayers

keyframesAfterSort_inPlace(keyframes) == SortByTime(keyframes)

\* keyframes after [...keyframes].sort(...): the copy is sorted, not the argument
keyframesAfterSort(keyframes) == keyframes

\* history record of a query: what was asked, what was returned, the first
\* query of the run with its result, and whether a different query followed it
CallOp(name, t, layer, position) ==
  LET this == [op |-> name, arg |-> t, layer |-> layer, position |-> position] IN
  [op |-> name, arg |-> t,
   first |-> IF lastOp.op = "init" THEN this ELSE lastOp.first,
   between |-> IF lastOp.op = "init" THEN FALSE
               ELSE lastOp.between \/ lastOp.first.op # name \/ lastOp.first.arg # t]

CallActiveLayer(t) ==
  /\ argTime' = t
  /\ argLayers' = layersAfterFilter(argLayers)
  /\ retLayer' = getActiveLayerAtTime(argLayers, t)
  /\ lastOp' = CallOp("getActiveLayerAtTime", t, retLayer', NullPosition)
  /\ UNCHANGED <<storeVars, argKeyframes, retPosition, hasEnded>>

CallPosition(t) ==
  /\ argTime' = t
  /\ argKeyframes' = keyframesAfterSort(argKeyframes)
  /\ retPosition' = interpolatePosition(argKeyframes, t)
  /\ lastOp' = CallOp("interpolatePosition", t, NullLayer, retPosition')
  /\ UNCHANGED <<storeVars, argLayers, retLayer, hasEnded>>

InitPure ==
  /\ InitStore(0)
  /\ uploads = {}
  /\ audioTime = NoAudio
  /\ \/ argLayers \in PureLayerLists /\ argKeyframes = <<>>
     \/ argLayers = <<>> /\ argKeyframes \in PureKeyframeLists
  /\ argTime = 0
  /\ retLayer = NullLayer
  /\ retPosition = NullPosition
  /\ lastOp = Op("init", 0)
  /\ hasEnded = FALSE

NextPure ==
  \/ \E t \in PureLayerTimes : CallActiveLayer(t)
  \/ \E t \in PureKeyframeTimes : CallPosition(t)

SpecPure == InitPure /\ [][NextPure]_vars

----------------------------------------------------------------------------
(* C1: getActiveLayerAtTime returns null exactly when no layer of the track *)
(* has startSec <= t < endSec; otherwise it returns one of the layers that  *)
(* do, of a priority no lower than any other that does; it never returns a  *)
(* layer at t = its endSec; A (priority 1, [0,10)) and B (priority 2,       *)
(* [3,6)) give A on [0,3), B on [3,6), A on [6,10).                         *)

LayerA == [layerId |-> 1, startSec |-> 0, endSec |-> 10, priority |-> 1]
LayerB == [layerId |-> 2, startSec |-> 3, endSec |-> 6, priority |-> 2]

Qualifying(ls, t) == {i \in 1..Len(ls) : ls[i].startSec <= t /\ t < ls[i].endSec}

C1_ResolverContract ==
  lastOp.op = "getActiveLayerAtTime" =>
    LET q == Qualifying(argLayers, argTime) IN
    /\ (retLayer = NullLayer) <=> (q = {})
    /\ q # {} => /\ \E i \in q : retLayer = argLayers[i]
                 /\ \A j \in q : retLayer.priority >= argLayers[j].priority
    /\ retLayer # NullLayer => argTime # retLayer.endSec
    /\ argLayers = <<LayerA, LayerB>> =>
         /\ argTime \in 0..2 => retLayer = LayerA
         /\ argTime \in 3..5 => retLayer = LayerB
         /\ argTime \in 6..9 => retLayer = LayerA
         /\ argTime \notin 0..9 => retLayer = NullLayer

C1_Witness ==
  /\ lastOp.op = "getActiveLayerAtTime"
  /\ argLayers = <<LayerA, LayerB>>
  /\ argTime = 6
  /\ retLayer = LayerA

----------------------------------------------------------------------------
(* Reading a keyframe list as the sequence H of its HOLDs sorted by time.   *)
(* HOLDs of equal time are taken in the order of the list ("listed", what   *)
(* the stable sort of interpolatePosition does) or in the opposite order    *)
(* ("reversed").                                                            *)

TieOrders == {"listed", "reversed"}

HoldIdx(kfs) == {i \in 1..Len(kfs) : kfs[i].interp = "STEP" /\ kfs[i].x # Undefined
                                       /\ kfs[i].y # Undefined}

MarkerIdx(kfs) == {i \in 1..Len(kfs) : kfs[i].interp = "LINEAR"}

\* of the HOLDs in the index set at, all of one time: the one H lists first, or last
FirstOfTies(at, ord) == IF ord = "listed" THEN MinOfSet(at) ELSE MaxOfSet(at)
LastOfTies(at, ord) == IF ord = "listed" THEN MaxOfSet(at) ELSE MinOfSet(at)

\* H[0] and H[n-1]
FirstHold(kfs, ord) ==
  LET earliest == MinOfSet({kfs[i].timeSec : i \in HoldIdx(kfs)})
  IN kfs[FirstOfTies({i \in HoldIdx(kfs) : kfs[i].timeSec = earliest}, ord)]

LastHold(kfs, ord) ==
  LET latest == MaxOfSet({kfs[i].timeSec : i \in HoldIdx(kfs)})
  IN kfs[LastOfTies({i \in HoldIdx(kfs) : kfs[i].timeSec = latest}, ord)]

\* H[i] and H[i+1] for the i with H[i].timeSec <= t < H[i+1].timeSec
HoldBefore(kfs, t, ord) ==
  LET at == {i \in HoldIdx(kfs) : kfs[i].timeSec <= t}
      latest == MaxOfSet({kfs[i].timeSec : i \in at})
  IN kfs[LastOfTies({i \in at : kfs[i].timeSec = latest}, ord)]

HoldAfter(kfs, t, ord) ==
  LET at == {i \in HoldIdx(kfs) : kfs[i].timeSec > t}
      earliest == MinOfSet({kfs[i].timeSec : i \in at})
  IN kfs[FirstOfTies({i \in at : kfs[i].timeSec = earliest}, ord)]

InsideBracket(kfs, t) ==
  /\ \E i \in HoldIdx(kfs) : kfs[i].timeSec <= t
  /\ \E i \in HoldIdx(kfs) : kfs[i].timeSec > t

\* the value v equals a + (b - a) * num / den
IsLerp(v, a, b, num, den) == v.d # 0 /\ v.n * den = v.d * (a * den + (b - a) * num)

HoldPosition(kf) == [x |-> [n |-> kf.x, d |-> 1], y |-> [n |-> kf.y, d |-> 1]]

\* the times the positions of a track are asked for
EditorQueryTimes == EditorSeekTimes \cup {-1, 1000}

----------------------------------------------------------------------------
(* C2: between consecutive HOLDs H[i], H[i+1] with H[i].timeSec <= t <      *)
(* H[i+1].timeSec, if a TRANSITION marker m lies in (H[i].timeSec,          *)
(* H[i+1].timeSec] and t >= m.timeSec, interpolatePosition returns          *)
(* H[i] + progress * (H[i+1] - H[i]) in x and in y with progress =          *)
(* (t - m.timeSec) / (H[i+1].timeSec - m.timeSec), m being the earliest     *)
(* such marker; otherwise it returns H[i]'s position.  Stated for every     *)
(* track of the editor and every query time, under one order of the HOLDs   *)
(* of equal time.                                                           *)

BracketLaw(kfs, t, ret, ord) ==
  InsideBracket(kfs, t) =>
    LET h == HoldBefore(kfs, t, ord)
        g == HoldAfter(kfs, t, ord)
        ms == {kfs[j].timeSec : j \in {k \in MarkerIdx(kfs) :
                 h.timeSec < kfs[k].timeSec /\ kfs[k].timeSec <= g.timeSec}}
    IN IF ms # {} /\ t >= MinOfSet(ms)
       THEN /\ IsLerp(ret.x, h.x, g.x, t - MinOfSet(ms), g.timeSec - MinOfSet(ms))
            /\ IsLerp(ret.y, h.y, g.y, t - MinOfSet(ms), g.timeSec - MinOfSet(ms))
       ELSE ret = HoldPosition(h)

C2_BracketInterpolation ==
  \A s \in Slots : \E ord \in TieOrders : \A t \in EditorQueryTimes :
    BracketLaw(positionKeyframes[s], t, interpolatePosition(positionKeyframes[s], t), ord)

----------------------------------------------------------------------------
(* C3: clamping law.  With the HOLDs sorted by time as H[0..n-1],           *)
(* interpolatePosition returns H[0]'s position for every t <= H[0].timeSec  *)
(* and H[n-1]'s position for every t >= H[n-1].timeSec, negative and very   *)
(* large t included.  Stated for every track of the editor, under one order *)
(* of the HOLDs of equal time.                                              *)

ClampLaw(kfs, t, ret, ord) ==
  HoldIdx(kfs) # {} =>
    /\ t <= FirstHold(kfs, ord).timeSec => ret = HoldPosition(FirstHold(kfs, ord))
    /\ t >= LastHold(kfs, ord).timeSec => ret = HoldPosition(LastHold(kfs, ord))

C3_ClampingLaw ==
  \A s \in Slots : \E ord \in TieOrders : \A t \in EditorQueryTimes :
    ClampLaw(positionKeyframes[s], t, interpolatePosition(positionKeyframes[s], t), ord)

----------------------------------------------------------------------------
(* C4: interpolatePosition returns null when the list has no HOLD (STEP)    *)
(* keyframe, and a position, never null, for every t when at least one HOLD *)
(* with x and y exists.                                                     *)

C4_NullIffNoHold ==
  lastOp.op = "interpolatePosition" =>
    /\ (\A i \in 1..Len(argKeyframes) : argKeyframes[i].interp # "STEP")
         => retPosition = NullPosition
    /\ HoldIdx(argKeyframes) # {}
         => retPosition.x.d > 0 /\ retPosition.y.d > 0

C4_Witness ==
  /\ lastOp.op = "interpolatePosition"
  /\ Len(argKeyframes) = 2
  /\ \A i \in 1..2 : argKeyframes[i].interp = "LINEAR"
  /\ retPosition = NullPosition

----------------------------------------------------------------------------
(* C5: in every reachable state of the editor 0 <= currentTime <=           *)
(* timelineDuration.                                                        *)

C5_TimeWithinTimeline == 0 <= currentTime /\ currentTime <= timelineDuration

----------------------------------------------------------------------------
(* C6: a tick whose new time currentTime + elapsed reaches or exceeds       *)
(* timelineDuration sets currentTime = timelineDuration and leaves          *)
(* isPlaying = false with no further animation frame scheduled; any other   *)
(* tick adds the elapsed time and keeps playing.                            *)

C6_AutoStop ==
  [][lastOp'.op = "tick" =>
       IF currentTime + lastOp'.arg >= timelineDuration
       THEN currentTime' = timelineDuration /\ ~isPlaying' /\ ~rafPending'
       ELSE currentTime' = currentTime + lastOp'.arg /\ isPlaying' /\ rafPending']_vars

C6_Witness ==
  /\ lastOp = Op("tick", 5)
  /\ timelineDuration = 3
  /\ currentTime = 3
  /\ ~isPlaying
  /\ ~rafPending

----------------------------------------------------------------------------
(* C7: a seek to t' (ruler click, or skip-to-start with t' = 0) sets        *)
(* currentTime = clamp(t', 0, timelineDuration), playing or stopped, and    *)
(* leaves isPlaying and the animation loop as they were; the tick that      *)
(* follows a seek advances from the new time.                               *)

Clamp(t, lo, hi) == IF t < lo THEN lo ELSE IF t > hi THEN hi ELSE t

C7_Seek ==
  [][/\ lastOp'.op = "seek" =>
          /\ currentTime' = Clamp(lastOp'.arg, 0, timelineDuration)
          /\ isPlaying' = isPlaying
          /\ rafPending' = rafPending
     /\ lastOp'.op = "skipToStart" =>
          /\ currentTime' = 0
          /\ isPlaying' = isPlaying
          /\ rafPending' = rafPending
     /\ (lastOp.op \in {"seek", "skipToStart"} /\ lastOp'.op = "tick"
           /\ currentTime + lastOp'.arg < timelineDuration) =>
          currentTime' = currentTime + lastOp'.arg]_vars

C7_Witness ==
  /\ lastOp = Op("seek", 11)
  /\ isPlaying
  /\ rafPending
  /\ timelineDuration = 4
  /\ currentTime = 4

----------------------------------------------------------------------------
(* C8: while isPlaying is false no animation frame fires, and currentTime   *)
(* changes only by a seek (ruler click, skip-to-start, stop).               *)

C8_PauseFreezes ==
  [][~isPlaying =>
       /\ lastOp'.op # "tick"
       /\ currentTime' # currentTime => lastOp'.op \in {"seek", "skipToStart", "stop"}]_vars

C8_Witness ==
  /\ lastOp.op = "pause"
  /\ ~isPlaying
  /\ ~rafPending
  /\ 0 < currentTime
  /\ currentTime < timelineDuration

----------------------------------------------------------------------------
(* C9: the clock starts at currentTime = 0 with isPlaying = false; play     *)
(* always starts the animation loop at the current time, also after         *)
(* playback has run into the end and the user has sought back, and the      *)
(* ticks after it advance from that time.                                   *)

C9_StartsStoppedAndResumes ==
  /\ currentTime = 0 /\ ~isPlaying
  /\ [][/\ lastOp'.op = "play" =>
             /\ isPlaying' /\ rafPending'
             /\ currentTime' = currentTime
             /\ currentTimeRef' = currentTime
             /\ effectDuration' = timelineDuration
        /\ (lastOp.op = "play" /\ lastOp'.op = "tick"
              /\ currentTime + lastOp'.arg < timelineDuration) =>
             currentTime' = currentTime + lastOp'.arg /\ isPlaying']_vars

\* no layer was ever uploaded: the timeline has kept the length at which playback ended
C9_Witness ==
  /\ hasEnded
  /\ nextId = 1
  /\ lastOp = Op("tick", 1)
  /\ isPlaying
  /\ rafPending
  /\ 0 < currentTime
  /\ currentTime < timelineDuration

----------------------------------------------------------------------------
(* C10: when a save finds a HOLD of the track within epsilon of the         *)
(* committed time, the track keeps its number of keyframes and one such     *)
(* HOLD keeps its id, its time and its kind and takes the committed x,y,    *)
(* every other keyframe staying as it was.                                  *)

HoldNear(kfs, t) == {i \in HoldIdx(kfs) : Abs(kfs[i].timeSec - t) < EPSILON}

C10_ReplaceInPlace ==
  [][lastOp'.op = "savePositions" =>
       \A s \in Slots :
         HoldNear(positionKeyframes[s], currentTime) # {} =>
           /\ Len(positionKeyframes'[s]) = Len(positionKeyframes[s])
           /\ \E i \in HoldNear(positionKeyframes[s], currentTime) :
                /\ positionKeyframes'[s][i].id = positionKeyframes[s][i].id
                /\ positionKeyframes'[s][i].timeSec = positionKeyframes[s][i].timeSec
                /\ positionKeyframes'[s][i].interp = "STEP"
                /\ \A j \in 1..Len(positionKeyframes[s]) :
                     j # i => positionKeyframes'[s][j] = positionKeyframes[s][j]]_vars

\* the part of C10 the code does keep: the number of keyframes
C10_SizeKept ==
  [][lastOp'.op = "savePositions" =>
       \A s \in Slots :
         HoldNear(positionKeyframes[s], currentTime) # {} =>
           Len(positionKeyframes'[s]) = Len(positionKeyframes[s])]_vars

----------------------------------------------------------------------------
(* C11: after any sequence of saves, no two HOLDs of a track have times     *)
(* closer than epsilon.                                                     *)

C11_HoldsApart ==
  \A s \in Slots : \A i, j \in HoldIdx(positionKeyframes[s]) :
    i # j => Abs(positionKeyframes[s][i].timeSec - positionKeyframes[s][j].timeSec) >= EPSILON

----------------------------------------------------------------------------
(* C12: after any sequence of saves, every pair of consecutive HOLDs of a   *)
(* track whose gap exceeds TRANSITION_DURATION has a TRANSITION marker      *)
(* within epsilon of (later HOLD's time - TRANSITION_DURATION), and         *)
(* interpolatePosition holds the earlier HOLD's position at every time of   *)
(* the pair's bracket that lies more than epsilon before that instant.      *)

\* HOLDs i, j of kfs are consecutive: i is earlier and no HOLD lies strictly between
ConsecutiveHolds(kfs, i, j) ==
  /\ kfs[i].timeSec < kfs[j].timeSec
  /\ \A k \in HoldIdx(kfs) : ~(kfs[i].timeSec < kfs[k].timeSec /\ kfs[k].timeSec < kfs[j].timeSec)

GlideWindowLaw(kfs) ==
  \A i, j \in HoldIdx(kfs) :
    (ConsecutiveHolds(kfs, i, j) /\ kfs[j].timeSec - kfs[i].timeSec > TRANSITION_DURATION) =>
      /\ \E m \in MarkerIdx(kfs) :
           Abs(kfs[m].timeSec - (kfs[j].timeSec - TRANSITION_DURATION)) < EPSILON
      /\ \A t \in EditorQueryTimes :
           (kfs[i].timeSec < t /\ t <= kfs[j].timeSec - TRANSITION_DURATION - EPSILON) =>
             interpolatePosition(kfs, t) = HoldPosition(kfs[i])

C12_GlideWindow == \A s \in Slots : GlideWindowLaw(positionKeyframes[s])

----------------------------------------------------------------------------
(* C13: a save repeated with the same formation at the same time leaves     *)
(* every track with the same number of keyframes, the same times, kinds and *)
(* positions in the same order, and interpolatePosition with the same       *)
(* result at every query time.                                              *)

\* what a keyframe list is apart from the ids of its keyframes
Unidentified(kfs) ==
  [i \in 1..Len(kfs) |-> [timeSec |-> kfs[i].timeSec, interp |-> kfs[i].interp,
                          x |-> kfs[i].x, y |-> kfs[i].y]]

C13_SaveIdempotent ==
  [][(lastOp'.op = "savePositions" /\ lastOp'.repeat) =>
       \A s \in Slots :
         /\ Len(positionKeyframes'[s]) = Len(positionKeyframes[s])
         /\ Unidentified(positionKeyframes'[s]) = Unidentified(positionKeyframes[s])
         /\ \A t \in EditorQueryTimes :
              interpolatePosition(positionKeyframes'[s], t)
                = interpolatePosition(positionKeyframes[s], t)]_vars

\* the first of the two saves pushed a HOLD at 151 and its TRANSITION at 51
C13_Witness ==
  /\ lastOp.op = "savePositions"
  /\ lastOp.repeat
  /\ lastOp.arg = 151
  /\ Len(positionKeyframes[1]) = 3
  /\ positionKeyframes[1][2].interp = "LINEAR"
  /\ positionKeyframes[1][3].timeSec = 151

----------------------------------------------------------------------------
(* C14: addPositionKeyframe given a STEP keyframe that lacks x or y leaves  *)
(* the stored keyframes unchanged, and after every call every stored STEP   *)
(* keyframe has both x and y.                                               *)

Malformed(kf) == kf.interp = "STEP" /\ (kf.x = Undefined \/ kf.y = Undefined)

C14_MalformedRejected ==
  [][lastOp'.op = "addPositionKeyframe" =>
       /\ Malformed(lastOp'.keyframe) => positionKeyframes' = positionKeyframes
       /\ \A s \in Slots : \A i \in 1..Len(positionKeyframes'[s]) :
            ~Malformed(positionKeyframes'[s][i])]_vars

----------------------------------------------------------------------------
(* C15: a call of getActiveLayerAtTime or interpolatePosition leaves the    *)
(* layer list and the keyframe list (contents and order), the store and the *)
(* clock unchanged, and a call with the inputs of the first call of the run *)
(* returns what the first call returned, whatever was called in between.    *)

----------------------------------------------------------------------------
(* C16: the timelineDuration the editor renders with equals the maximum of  *)
(* music.durationSec and the endSec of every layer of the three tracks      *)
(* after every layer add, drag-move and remove, so that every layer's       *)
(* endSec is <= it.                                                         *)

C16_TimelineDuration ==
  LET ends == UNION {{layers[s][i].endSec : i \in 1..Len(layers[s])} : s \in Slots}
  IN /\ \A e \in ends \cup {musicDurationSec} : e <= renderedDuration
     /\ renderedDuration \in ends \cup {musicDurationSec}

\* a layer dragged to a later start has lengthened the timeline
C16_Witness ==
  /\ lastOp.op = "dragMove"
  /\ musicDurationSec = 3
  /\ renderedDuration = 5
  /\ \E s \in Slots : Len(layers[s]) = 1 /\ layers[s][1].endSec = 5

----------------------------------------------------------------------------
(* C17: when a patch layer is inserted into a track its priority is         *)
(* strictly greater than the priority of every layer already in the track   *)
(* and than PATCH_PRIORITY_THRESHOLD, and right after the insertion          *)
(* getActiveLayerAtTime returns the patch at every t in [startSec, endSec). *)

C17_PatchOnTop ==
  [][lastOp'.op = "addPatch" =>
       LET before == layers[lastOp'.arg]
           after == layers'[lastOp'.arg]
           patch == after[Len(after)]
       IN /\ Len(after) = Len(before) + 1
          /\ patch.priority > PATCH_PRIORITY_THRESHOLD
          /\ \A i \in 1..Len(before) : patch.priority > before[i].priority
          /\ \A t \in patch.startSec..(patch.endSec - 1) :
               getActiveLayerAtTime(after, t) = patch]_vars

\* a patch inserted over an ordinary layer that covers it
C17_Witness ==
  /\ lastOp.op = "addPatch"
  /\ Len(layers[lastOp.arg]) = 2
  /\ layers[lastOp.arg][1].priority = 1
  /\ layers[lastOp.arg][2].priority = 101
  /\ layers[lastOp.arg][1].startSec <= layers[lastOp.arg][2].startSec
  /\ layers[lastOp.arg][2].endSec <= layers[lastOp.arg][1].endSec
  /\ getActiveLayerAtTime(layers[lastOp.arg], layers[lastOp.arg][2].startSec)
       = layers[lastOp.arg][2]

----------------------------------------------------------------------------
(* C18: after any sequence of layer insertions, uploads in flight and       *)
(* completing in any order, each inserted layer has the priority (maximum   *)
(* priority of its track at insertion) + 1, a patch taking the maximum from *)
(* PATCH_PRIORITY_THRESHOLD up, so no two layers of a track share a priority. *)

C18_DistinctPriorities ==
  /\ [](\A s \in Slots : \A i, j \in 1..Len(layers[s]) :
          i # j => layers[s][i].priority # layers[s][j].priority)
  /\ [][\A s \in Slots :
          Len(layers'[s]) = Len(layers[s]) + 1 =>
            LET new == layers'[s][Len(layers'[s])] IN
            \/ new.priority = MaxPriority(layers[s], 0) + 1
            \/ lastOp'.op = "addPatch"
                 /\ new.priority = MaxPriority(layers[s], PATCH_PRIORITY_THRESHOLD) + 1]_vars

----------------------------------------------------------------------------
(* C19: after every operation that sets currentTime other than the playback *)
(* tick (ruler click, skip-to-start button, stop button) and at every       *)
(* transition to playing, the audio element's position equals currentTime,  *)
(* also when the operation happens while playing.                           *)

C19_AudioFollowsClock ==
  (audioTime # NoAudio /\ lastOp.op \in {"seek", "skipToStart", "stop", "play"})
    => audioTime = currentTime

\* a ruler click while playing moved the audio element with the clock
C19_Witness ==
  /\ lastOp.op = "seek"
  /\ isPlaying
  /\ audioTime # NoAudio
  /\ 0 < currentTime
  /\ audioTime = currentTime

----------------------------------------------------------------------------
(* C20 as stated: for every track and clock time the layer selected for     *)
(* Front View rendering is the layer getActiveLayerAtTime returns for the   *)
(* track at currentTime, and nothing is rendered exactly when it returns    *)
(* null.                                                                    *)

C20_FrontViewIsResolver ==
  lastOp.op = "frontViewDancers" =>
    /\ lastOp.activeLayer = retLayer
    /\ (lastOp.activeLayer = NullLayer) <=> (retLayer = NullLayer)

(* C20 amended: the layer selected for Front View rendering is the layer    *)
(* getActiveLayerAtTime returns at currentTime for the track's layers whose *)
(* skeleton is READY and cached (for a track whose layers are all ready,    *)
(* for the track itself), and nothing is rendered exactly when it returns   *)
(* null for them.                                                           *)

C20_FrontViewIsResolverOfReady ==
  lastOp.op = "frontViewDancers" =>
    /\ lastOp.activeLayer = lastOp.amongReady
    /\ (lastOp.activeLayer = NullLayer) <=> (lastOp.amongReady = NullLayer)
    /\ (\A i \in 1..Len(argLayers) : argLayers[i].ready) => lastOp.activeLayer = retLayer

\* a ready layer is drawn under an active layer of higher priority that is
\* still being processed
C20_Witness ==
  /\ lastOp.op = "frontViewDancers"
  /\ lastOp.activeLayer # NullLayer
  /\ lastOp.activeLayer.ready
  /\ retLayer # NullLayer
  /\ ~retLayer.ready
  /\ retLayer.priority > lastOp.activeLayer.priority

----------------------------------------------------------------------------
(* C21: saving a project serializes every stored keyframe of every track,   *)
(* HOLDs with x,y and TRANSITION markers without x,y alike: the serialized  *)
(* list of a track has the length, times and kinds of the stored            *)
(* collection, and reloading it gives the same interpolatePosition result   *)
(* for every t.                                                             *)

C21_SaveKeepsKeyframes ==
  lastOp.op = "saveProject" =>
    \A s \in Slots :
      LET sent == lastOp.keyframes[s]
          stored == positionKeyframes[s]
      IN /\ Len(sent) = Len(stored)
         /\ \A i \in 1..Len(stored) :
              sent[i].time_sec = stored[i].timeSec /\ sent[i].interp = stored[i].interp
         /\ \A t \in 0..EditorMusicDuration :
              interpolatePosition(loadKeyframes(sent), t) = interpolatePosition(stored, t)

\* a project saved while a track holds only HOLDs: everything is sent
C21_Witness ==
  /\ lastOp.op = "saveProject"
  /\ Len(positionKeyframes[1]) = 2
  /\ \A i \in 1..2 : positionKeyframes[1][i].interp = "STEP"
  /\ Len(lastOp.keyframes[1]) = 2

----------------------------------------------------------------------------
(* C22: every layer of every track has endSec > startSec in every reachable *)
(* state: uploads and patch uploads create layers of positive length, and a *)
(* drag-move shifts startSec and endSec by the same amount and changes      *)
(* nothing else of the layer.                                               *)

----------------------------------------------------------------------------
(* C23: a save that inserts a new HOLD at t (no keyframe within epsilon of  *)
(* t) also inserts a TRANSITION marker without x,y at t - D exactly when an *)
(* immediately preceding HOLD exists at t_prev with t - t_prev > D and no   *)
(* TRANSITION already lies within epsilon of t - D; otherwise the HOLD is   *)
(* the only keyframe added.  The keyframes held before are all kept.        *)

\* the keyframes of new that old does not hold, apart from their ids
AddedKeyframes(old, new) ==
  {Unidentified(new)[i] : i \in {j \in 1..Len(new) :
                                   \A k \in 1..Len(old) : old[k] # new[j]}}

----------------------------------------------------------------------------
(* C24: after any sequence of saves no two TRANSITION markers of a track    *)
(* lie within epsilon of each other; in particular a second save at the     *)
(* same t with the same prior HOLD adds no second TRANSITION at t - D.      *)

C24_MarkersApart ==
  /\ [](\A s \in Slots : \A i, j \in MarkerIdx(positionKeyframes[s]) :
          i # j => Abs(positionKeyframes[s][i].timeSec - positionKeyframes[s][j].timeSec)
                     >= EPSILON)
  /\ [][(lastOp'.op = "savePositions" /\ lastOp.op = "savePositions"
           /\ lastOp'.arg = lastOp.arg) =>
          \A s \in Slots :
            Cardinality(MarkerIdx(positionKeyframes'[s]))
              = Cardinality(MarkerIdx(positionKeyframes[s]))]_vars

\* the marker at 51 came with a HOLD saved at 151 and moved to 152; a new
\* HOLD at 150, far from the HOLD at 0, got no second marker at 50
C24_Witness ==
  /\ lastOp.op = "savePositions"
  /\ lastOp.arg = 150
  /\ [i \in 1..Len(positionKeyframes[1]) |->
        <<positionKeyframes[1][i].timeSec, positionKeyframes[1][i].interp>>]
       = <<<<0, "STEP">>, <<51, "LINEAR">>, <<150, "STEP">>, <<152, "STEP">>>>

----------------------------------------------------------------------------
(* C25: a TRANSITION marker positioned exactly at H[i+1].timeSec, with none *)
(* earlier in the bracket, gives an instantaneous jump and no division by   *)
(* zero: interpolatePosition returns H[i]'s position for every t in         *)
(* [H[i].timeSec, H[i+1].timeSec) and H[i+1]'s position at t =              *)
(* H[i+1].timeSec.  Stated under one order of the HOLDs of equal time.      *)

\* the HOLDs before and after t are consecutive and the markers of their
\* bracket all sit at the later HOLD's time
MarkerAtNextHold(kfs, h, g) ==
  /\ \E m \in MarkerIdx(kfs) : kfs[m].timeSec = g.timeSec
  /\ \A m \in MarkerIdx(kfs) :
       ~(h.timeSec < kfs[m].timeSec /\ kfs[m].timeSec < g.timeSec)

JumpLaw(kfs, t, ret, ord) ==
  /\ InsideBracket(kfs, t) =>
       LET h == HoldBefore(kfs, t, ord)
           g == HoldAfter(kfs, t, ord)
       IN MarkerAtNextHold(kfs, h, g) => ret = HoldPosition(h)
  /\ \A j \in HoldIdx(kfs) :
       (/\ t = kfs[j].timeSec
        /\ \E i \in HoldIdx(kfs) : kfs[i].timeSec < t
        /\ \E m \in MarkerIdx(kfs) : kfs[m].timeSec = t) =>
         ret = HoldPosition(HoldBefore(kfs, t, ord))

C25_MarkerAtHold ==
  lastOp.op = "interpolatePosition" =>
    \E ord \in TieOrders :
      /\ JumpLaw(argKeyframes, argTime, retPosition, ord)
      /\ \A t \in JumpQueryTimes :
           JumpLaw(argKeyframes, t, interpolatePosition(argKeyframes, t), ord)

\* HOLD at 0, HOLD at 2 with a marker at 2, asked at 1: still the first position
C25_Witness ==
  /\ lastOp.op = "interpolatePosition"
  /\ argTime = 1
  /\ Unidentified(argKeyframes)
       = <<[timeSec |-> 0, interp |-> "STEP", x |-> 4, y |-> 14],
           [timeSec |-> 2, interp |-> "LINEAR", x |-> Undefined, y |-> Undefined],
           [timeSec |-> 2, interp |-> "STEP", x |-> 10, y |-> 10]>>
  /\ retPosition = [x |-> [n |-> 4, d |-> 1], y |-> [n |-> 14, d |-> 1]]

----------------------------------------------------------------------------
(* C26: when several layers qualifying at t share the maximum priority,     *)
(* getActiveLayerAtTime returns the one that comes first in the track's     *)
(* layer list, the same layer on every call with the same list.             *)

\* the qualifying layers of highest priority, by index
TopQualifying(trackLayers, t) ==
  {i \in Qualifying(trackLayers, t) :
     \A j \in Qualifying(trackLayers, t) : trackLayers[i].priority >= trackLayers[j].priority}

C26_FirstOfTies ==
  (lastOp.op = "getActiveLayerAtTime" /\ Qualifying(argLayers, argTime) # {}) =>
    /\ retLayer = argLayers[MinOfSet(TopQualifying(argLayers, argTime))]
    /\ retLayer = getActiveLayerAtTime(argLayers, argTime)

\* three layers qualify at 5, the last two share the highest priority: the
\* second is returned
C26_Witness ==
  /\ lastOp.op = "getActiveLayerAtTime"
  /\ argTime = 5
  /\ Len(argLayers) = 3
  /\ Qualifying(argLayers, 5) = {1, 2, 3}
  /\ argLayers[1].priority = 1
  /\ argLayers[2].priority = 2
  /\ argLayers[3].priority = 2
  /\ retLayer = argLayers[2]

----------------------------------------------------------------------------
(* C27: the clock is advanced by exactly one scheduler: at any moment at    *)
(* most one playback animation loop (pending requestAnimationFrame callback *)
(* of the playback effect) exists, whatever starts, pauses, seeks or        *)
(* changes the timeline during playback, and a frame never adds more than   *)
(* the real time elapsed since the previous one.                            *)

C27_OneLoop ==
  /\ [](/\ loopCount \in {0, 1}
        /\ (loopCount = 1) <=> rafPending
        /\ loopCount = 1 => isPlaying)
  /\ [][lastOp'.op = "tick" =>
          /\ loopCount = 1
          /\ currentTime' <= currentTime + lastOp'.arg]_vars

\* playing, after a pause, a second start and a layer added during playback:
\* still one loop
C27_Witness ==
  /\ lastOp.op = "addLayer"
  /\ isPlaying
  /\ loopCount = 1
  /\ 0 < currentTime

----------------------------------------------------------------------------
(* C28: addPositionKeyframe with a HOLD never removes, moves or overwrites  *)
(* an existing TRANSITION marker, also when the HOLD's time lies within     *)
(* epsilon of a marker: the TRANSITION markers of a track after a save are  *)
(* a superset of those before it.                                           *)

Markers(kfs) == {kfs[i] : i \in MarkerIdx(kfs)}

C28_MarkersKept ==
  [][lastOp'.op = "savePositions" =>
       \A s \in Slots : Markers(positionKeyframes[s]) \subseteq Markers(positionKeyframes'[s])]_vars

\* a HOLD saved less than epsilon from the marker of the next HOLD, which is gone
C28_Witness ==
  /\ lastOp.op = "savePositions"
  /\ \E s \in Slots : \E i, j \in HoldIdx(positionKeyframes[s]) :
       /\ positionKeyframes[s][i].timeSec = lastOp.arg
       /\ positionKeyframes[s][j].timeSec > lastOp.arg + TRANSITION_DURATION
       /\ Abs(positionKeyframes[s][j].timeSec - TRANSITION_DURATION - lastOp.arg) < EPSILON
       /\ \A m \in MarkerIdx(positionKeyframes[s]) :
            Abs(positionKeyframes[s][m].timeSec - lastOp.arg) >= EPSILON

----------------------------------------------------------------------------
(* SpecMenu: the layer context menu's "bring to front" and "send to back"   *)
(* on tracks filled by skeleton uploads and rearranged by dragging.  The    *)
(* unit of time is free; layers are 4 long and are dragged to 0 or 2.       *)

MenuSlots == {1}
MenuDurations == {4}
MenuDragStarts == {0, 2}
MenuQueryTimes == 0..12
\* "bring to front" is offered until the track's highest priority reaches this
MaxMenuPriority == 4

\* updateLayer(layerId, {priority}) on the track holding layerId
SetPriority(trackLayers, layerId, priority) ==
  [i \in 1..Len(trackLayers) |->
     IF trackLayers[i].layerId = layerId
     THEN [trackLayers[i] EXCEPT !.priority = priority]
     ELSE trackLayers[i]]

\* the layer of the track that the context menu was opened on
LayerOf(trackLayers, layerId) ==
  trackLayers[CHOOSE i \in 1..Len(trackLayers) : trackLayers[i].layerId = layerId]

\* Math.min(...track.layers.map(l => l.priority))
MinPriority(trackLayers) ==
  MinOfSet({trackLayers[i].priority : i \in 1..Len(trackLayers)})

\* handleBringToFront: maxPriority + 1 when the layer is below the maximum
BringToFront(slot, layerId) ==
  /\ \E i \in 1..Len(layers[slot]) : layers[slot][i].layerId = layerId
  /\ LET track == layers[slot]
         maxPriority == MaxOfSet({track[i].priority : i \in 1..Len(track)})
     IN /\ maxPriority < MaxMenuPriority
        /\ layers' = [layers EXCEPT ![slot] =
                        IF LayerOf(track, layerId).priority < maxPriority
                        THEN SetPriority(track, layerId, maxPriority + 1)
                        ELSE track]
  /\ lastOp' = [op |-> "bringToFront", arg |-> layerId, slot |-> slot]
  /\ UNCHANGED <<musicDurationSec, positionKeyframes, currentTime, isPlaying, nextId, uploads>>
  /\ UNCHANGED <<frameVars, viewVars>>
  /\ Commit(layers' # layers, rafPending, audioTime)

\* const newPriority = Math.max(1, minPriority - 1)
SendToBackPriority(minPriority) == Max2(1, minPriority - 1)

\* handleSendToBack: newPriority when the layer is above the minimum
SendToBack(slot, layerId) ==
  /\ \E i \in 1..Len(layers[slot]) : layers[slot][i].layerId = layerId
  /\ LET track == layers[slot]
         minPriority == MinPriority(track)
         above == LayerOf(track, layerId).priority > minPriority
     IN /\ layers' = [layers EXCEPT ![slot] =
                        IF above
                        THEN SetPriority(track, layerId, SendToBackPriority(minPriority))
                        ELSE track]
        /\ lastOp' = [op |-> "sendToBack", arg |-> layerId, slot |-> slot,
                      above |-> above, minPriority |-> minPriority]
  /\ UNCHANGED <<musicDurationSec, positionKeyframes, currentTime, isPlaying, nextId, uploads>>
  /\ UNCHANGED <<frameVars, viewVars>>
  /\ Commit(layers' # layers, rafPending, audioTime)

NextMenu ==
  \/ \E slot \in MenuSlots, d \in MenuDurations : UploadJsonStart(slot, d)
  \/ \E u \in uploads : UploadJsonDone(u)
  \/ \E slot \in MenuSlots, i \in 1..MaxUploads, t \in MenuDragStarts :
       LayerDragMove(slot, i, t)
  \/ \E slot \in MenuSlots, i \in 1..MaxUploads : BringToFront(slot, i)
  \/ \E slot \in MenuSlots, i \in 1..MaxUploads : SendToBack(slot, i)

SpecMenu == InitLayers /\ [][NextMenu]_vars

----------------------------------------------------------------------------
(* C29: after "send to back" on a layer whose priority is above the track   *)
(* minimum, the layer is behind every other layer of its track: its new     *)
(* priority is strictly lower than the priority of every other layer, and   *)
(* getActiveLayerAtTime does not return it at a time at which another layer *)
(* of the track also qualifies.                                             *)

C29_SentIsBehind ==
  (lastOp.op = "sendToBack" /\ lastOp.above) =>
    LET track == layers[lastOp.slot]
        sent == LayerOf(track, lastOp.arg)
        others == {i \in 1..Len(track) : track[i].layerId # lastOp.arg}
    IN /\ \A i \in others : sent.priority < track[i].priority
       /\ \A t \in MenuQueryTimes :
            (\E i \in others : i \in Qualifying(track, t)) =>
              getActiveLayerAtTime(track, t).layerId # lastOp.arg

\* a layer sent to the back of a track whose lowest priority was already 1,
\* overlapping the layer that holds that priority
C29_Witness ==
  /\ lastOp.op = "sendToBack"
  /\ lastOp.above
  /\ lastOp.minPriority = 1
  /\ LET track == layers[lastOp.slot] IN
       \E t \in MenuQueryTimes : \E i, j \in Qualifying(track, t) :
         /\ track[i].layerId = lastOp.arg
         /\ track[j].layerId # lastOp.arg
         /\ track[j].priority = 1

----------------------------------------------------------------------------
(* SpecEditMode: the Top View panel switched between play and edit mode     *)
(* while the clock is started, stopped, moved and advanced.  Time unit 5 ms *)

EditModeSeekTimes == {101}
EditModeDeltas == {150}
\* the formation the user drags the dancers into before pressing save
EditModeFormations == {[s \in Slots |-> <<4 + 6 * (s - 1), 14>>]}

\* button "위치 편집" of TopViewEditor: onModeChange('edit'), that is
\* handleTopViewModeChange('edit')
EnterEditMode ==
  /\ topViewMode = "play"
  /\ isPlaying' = IF isPlaying THEN togglePlayback(isPlaying) ELSE isPlaying
  /\ topViewMode' = "edit"
  /\ editStartedAt' = currentTime
  /\ lastOp' = [op |-> "enterEdit", arg |-> currentTime, wasPlaying |-> isPlaying]
  /\ UNCHANGED <<musicDurationSec, layers, positionKeyframes, currentTime, nextId, uploads>>
  /\ UNCHANGED frameVars
  /\ Commit(isPlaying' # isPlaying, rafPending, audioTime)

\* handleCancel of TopViewEditor: onModeChange('play')
CancelEdit ==
  /\ topViewMode = "edit"
  /\ topViewMode' = "play"
  /\ editStartedAt' = NotEditing
  /\ lastOp' = Op("cancelEdit", currentTime)
  /\ UNCHANGED <<musicDurationSec, layers, positionKeyframes, currentTime, isPlaying,
                 nextId, uploads>>
  /\ UNCHANGED frameVars
  /\ Commit(FALSE, rafPending, audioTime)

\* handleSave of TopViewEditor: onSavePositions(editPositions), which is
\* handleSavePositions, then onModeChange('play')
SaveEdit(formation) ==
  /\ topViewMode = "edit"
  /\ nextId <= MaxSaves
  /\ positionKeyframes' =
       [s \in Slots |->
          addPositionKeyframe(positionKeyframes[s],
            Keyframe(1000 * nextId + s, currentTime, "STEP", formation[s][1], formation[s][2]),
            1000 * nextId + 500 + s)]
  /\ nextId' = nextId + 1
  /\ topViewMode' = "play"
  /\ editStartedAt' = NotEditing
  /\ lastOp' = [op |-> "saveEdit", arg |-> currentTime, startedAt |-> editStartedAt,
                playing |-> isPlaying]
  /\ UNCHANGED <<musicDurationSec, layers, currentTime, isPlaying, uploads>>
  /\ UNCHANGED frameVars
  /\ Commit(TRUE, rafPending, audioTime)

NextEditMode ==
  \/ TogglePlayback
  \/ \E x \in EditModeSeekTimes : RulerClick(x)
  \/ \E delta \in EditModeDeltas : Tick(delta)
  \/ EnterEditMode
  \/ CancelEdit
  \/ \E f \in EditModeFormations : SaveEdit(f)

SpecEditMode == InitEditor /\ [][NextEditMode]_vars

----------------------------------------------------------------------------
(* C30: whenever the Top View is in edit mode the clock is paused: entering *)
(* edit mode while playing sets isPlaying to false and leaves currentTime   *)
(* unchanged, isPlaying stays false for as long as the mode is 'edit', and  *)
(* positions saved from edit mode are committed at the time at which        *)
(* editing started.                                                         *)

C30_EditIsPaused ==
  /\ [](topViewMode = "edit" => ~isPlaying)
  /\ [][lastOp'.op = "enterEdit" => (~isPlaying' /\ currentTime' = currentTime)]_vars
  /\ [][lastOp'.op = "saveEdit" => lastOp'.arg = lastOp'.startedAt]_vars

\* edit mode entered during playback, at a time the clock had advanced to
C30_Witness ==
  /\ lastOp.op = "enterEdit"
  /\ lastOp.wasPlaying
  /\ topViewMode = "edit"
  /\ ~isPlaying
  /\ 0 < currentTime

====
